---- MODULE Spec2Model ----
(***************************************************************************)
(* Model of src/reddit_autopost.py: the RedditAutoPoster object (token     *)
(* store, authenticate, _get_headers, _upload_media, post_text, post_link, *)
(* post_media) driven by request threads that share the one poster.        *)
(*                                                                         *)
(* Python values: None is the string "None", a missing dict key is         *)
(* "Absent", text that the code searches or slices is a sequence of        *)
(* one-character strings.  Every remote call is one action whose response  *)
(* (status, body, transport failure) is chosen by \E.                      *)
(***************************************************************************)
EXTENDS Integers, Sequences, FiniteSets, TLC

None == "None"
Absent == "Absent"

\* The request threads of the front-end (app.run serves each request on its
\* own thread; all of them use the module-level poster).
Threads == {"t1", "t2"}

\* Calls started in a run of interleaved requests.
MaxCalls == 2

\* Longest upload-response body, counted in pieces (a tag or one character).
MaxPieces == 3

----------------------------------------------------------------------------
(* Python helpers *)

\* `not x` for a str-or-None value.
Falsy(x) == x = None \/ x = ""

\* dict.get(key): a missing key and a JSON null both read as None.
DictGet(v) == IF v = Absent THEN None ELSE v

\* dict.get(key, default): only a missing key takes the default.
DictGetDefault(v, d) == IF v = Absent THEN d ELSE v

\* str.capitalize() on the token types the model uses.
Capitalize(s) ==
  CASE s = "bearer" -> "Bearer"
    [] s = "BEARER" -> "Bearer"
    [] s = "Mac"    -> "Mac"
    [] OTHER        -> s

----------------------------------------------------------------------------
(* Responses of the remote endpoints *)

\* HTTP statuses; 0 stands for a transport failure (requests raises).
Transport == 0
Statuses == {200, 401, 503}

\* Authorization server: any status; a 200 body is unparsable, a JSON value
\* that is not an object, or an object with the two entries present or not.
AccessTokenValues == {Absent, "", "tokA", "tokB"}
TokenTypeValues == {Absent, None, "bearer", "Mac"}

AuthResponses ==
  {[status |-> s, shape |-> "text", access_token |-> Absent, token_type |-> Absent] :
      s \in (Statuses \ {200}) \cup {Transport}}
  \cup {[status |-> 200, shape |-> sh, access_token |-> Absent, token_type |-> Absent] :
      sh \in {"notjson", "nondict"}}
  \cup {[status |-> 200, shape |-> "dict", access_token |-> a, token_type |-> ty] :
      a \in AccessTokenValues, ty \in TokenTypeValues}

NoAuthResponse ==
  [status |-> Transport, shape |-> "text", access_token |-> Absent, token_type |-> Absent]

\* Asset-lease endpoint: `args.action` and `args.fields` of a 200 JSON
\* object; a field object may lack its `name` entry.
ActionValues == {Absent, "", "//bucket.s3/amazon"}
FieldLists ==
  { <<>>,
    << [name |-> "a", value |-> "1"] >>,
    << [name |-> "a", value |-> "1"], [name |-> "b", value |-> "2"] >>,
    << [name |-> "a", value |-> "1"], [name |-> "a", value |-> "2"] >>,
    << [name |-> "a", value |-> "1"], [name |-> Absent, value |-> "2"] >> }

LeaseResponses ==
  {[status |-> s, shape |-> "text", action |-> Absent, has_fields |-> FALSE, fields |-> <<>>] :
      s \in (Statuses \ {200}) \cup {Transport}}
  \cup {[status |-> 200, shape |-> sh, action |-> Absent, has_fields |-> FALSE, fields |-> <<>>] :
      sh \in {"notjson", "nondict"}}
  \cup {[status |-> 200, shape |-> "dict", action |-> a, has_fields |-> FALSE, fields |-> <<>>] :
      a \in ActionValues}
  \cup {[status |-> 200, shape |-> "dict", action |-> a, has_fields |-> TRUE, fields |-> f] :
      a \in ActionValues, f \in FieldLists}

\* Source of the media file.
FetchResponses ==
  {[status |-> s, content |-> "bytes"] : s \in Statuses \cup {Transport}}

\* Storage endpoint: the body is text, here every concatenation of at most
\* MaxPieces pieces, a piece being one of the two tags or a character.
LocationOpen == << "<", "L", "o", "c", "a", "t", "i", "o", "n", ">" >>
LocationClose == << "<", "/", "L", "o", "c", "a", "t", "i", "o", "n", ">" >>
Pieces == {LocationOpen, LocationClose, <<"u">>}

RECURSIVE BodiesOf(_)
BodiesOf(n) ==
  IF n = 0 THEN {<<>>}
  ELSE LET S == BodiesOf(n - 1) IN S \cup {b \o p : b \in S, p \in Pieces}

UploadResponses ==
  {[status |-> s, text |-> <<>>] : s \in (Statuses \ {200}) \cup {Transport}}
  \cup {[status |-> 200, text |-> b] : b \in BodiesOf(MaxPieces)}

\* Submission endpoint: the JSON envelope {json: {errors, data}}.
SubmitResponses ==
  {[status |-> s, shape |-> "text", json |-> "absent", errors |-> "absent", data |-> "absent"] :
      s \in (Statuses \ {200}) \cup {Transport}}
  \cup {[status |-> 200, shape |-> sh, json |-> "absent", errors |-> "absent", data |-> "absent"] :
      sh \in {"notjson", "nondict"}}
  \cup {[status |-> 200, shape |-> "dict", json |-> j, errors |-> "absent", data |-> "absent"] :
      j \in {"absent", "null"}}
  \cup {[status |-> 200, shape |-> "emptydict", json |-> "absent", errors |-> "absent", data |-> "absent"]}
  \cup {[status |-> 200, shape |-> "dict", json |-> "obj", errors |-> e, data |-> d] :
      e \in {"absent", "empty", "nonempty"}, d \in {"absent", "null", "obj"}}

NoLease ==
  [status |-> Transport, shape |-> "text", action |-> Absent, has_fields |-> FALSE, fields |-> <<>>]
NoResult ==
  [status |-> Transport, shape |-> "text", json |-> "absent", errors |-> "absent", data |-> "absent"]

\* Caller-supplied media URLs.
MediaUrls ==
  { << "h", "/", "a", ".", "j", "p", "g" >>,
    << "h", "/", "b", ".", "m", "p", "4" >>,
    << "h", "/" >>,
    << "h", "/", "B", ".", "M", "P", "4" >>,
    << "V", "i", "D", "e", "o" >>,
    << "h", "/", "c", ".", "m", "o", "v" >> }

----------------------------------------------------------------------------
(* Text helpers *)

\* pat occurs in s at 0-based offset i.
OccursAt(s, pat, i) ==
  /\ i + Len(pat) <= Len(s)
  /\ \A k \in 1..Len(pat) : s[i + k] = pat[k]

\* str.find: the lowest offset of pat in s, -1 when there is none.
Find(s, pat) ==
  LET hits == {i \in 0..Len(s) : OccursAt(s, pat, i)} IN
  IF hits = {} THEN -1 ELSE CHOOSE i \in hits : \A j \in hits : i <= j

\* `pat in s`
Contains(s, pat) == Find(s, pat) # -1

\* s.endswith(pat)
EndsWith(s, pat) == Len(pat) <= Len(s) /\ OccursAt(s, pat, Len(s) - Len(pat))

\* s[a:b] for a >= 0 and any integer b (a negative b counts from the end).
Slice(s, a, b) ==
  LET e0 == IF b < 0 THEN Len(s) + b ELSE b
      e  == IF e0 < 0 THEN 0 ELSE IF e0 > Len(s) THEN Len(s) ELSE e0
      st == IF a > Len(s) THEN Len(s) ELSE a
  IN  IF st >= e THEN <<>> ELSE SubSeq(s, st + 1, e)

\* str.lower() on the letters that occur in the model's URLs.
LowerChar(c) ==
  CASE c = "V" -> "v" [] c = "I" -> "i" [] c = "D" -> "d" [] c = "E" -> "e"
    [] c = "O" -> "o" [] c = "M" -> "m" [] c = "P" -> "p" [] OTHER -> c
Lower(s) == [i \in 1..Len(s) |-> LowerChar(s[i])]

\* media_url.split('/')[-1]
LastSegment(s) ==
  LET slashes == {i \in 1..Len(s) : s[i] = "/"} IN
  IF slashes = {} THEN s
  ELSE SubSeq(s, (CHOOSE i \in slashes : \A j \in slashes : j <= i) + 1, Len(s))

DotMp4 == << ".", "m", "p", "4" >>
DotJpg == << ".", "j", "p", "g" >>
DotMov == << ".", "m", "o", "v" >>
VideoWord == << "v", "i", "d", "e", "o" >>
MediaJpg == << "m", "e", "d", "i", "a", ".", "j", "p", "g" >>

\* filename = media_url.split('/')[-1] or 'media.jpg'
Filename(media_url) ==
  IF LastSegment(media_url) = <<>> THEN MediaJpg ELSE LastSegment(media_url)

\* mimetypes.guess_type on the extensions of the model, then the fallback
\* `'image/jpeg' if not filename.endswith('.mp4') else 'video/mp4'`.
MimeType(filename) ==
  LET guess == IF EndsWith(Lower(filename), DotJpg) THEN "image/jpeg"
               ELSE IF EndsWith(Lower(filename), DotMp4) THEN "video/mp4"
               ELSE IF EndsWith(Lower(filename), DotMov) THEN "video/quicktime"
               ELSE None
  IN  IF guess # None THEN guess
      ELSE IF ~EndsWith(filename, DotMp4) THEN "image/jpeg" ELSE "video/mp4"

\* Variant: the tests are made without lower().
MediaKind_nolower(media_url) ==
  IF EndsWith(media_url, DotMp4) \/ Contains(media_url, VideoWord)
    THEN "video" ELSE "image"

\* is_video = media_url.lower().endswith('.mp4') or 'video' in media_url.lower()
MediaKind(media_url) ==
  IF EndsWith(Lower(media_url), DotMp4) \/ Contains(Lower(media_url), VideoWord)
    THEN "video" ELSE "image"

\* The Location parse of the upload response text.
HasLocation(text) == Contains(text, LocationOpen)
Locate(text) == Slice(text, Find(text, LocationOpen) + 10, Find(text, LocationClose))

\* upload_data after `for field in fields: upload_data[field['name']] =
\* field['value']` has run over the first n fields: a dict, a later entry of
\* the same name overwriting the earlier one.
RECURSIVE FormFrom(_, _)
FormFrom(fields, n) ==
  IF n = 0 THEN [k \in {} |-> ""]
  ELSE LET d == FormFrom(fields, n - 1)
           f == fields[n]
       IN  [k \in DOMAIN d \cup {f.name} |-> IF k = f.name THEN f.value ELSE d[k]]

\* field['name'] raises KeyError on a field object without that entry.
FormRaises(fields) == \E i \in 1..Len(fields) : fields[i].name = Absent

----------------------------------------------------------------------------
(* State *)

VARIABLES
  access_token,   \* self.access_token
  token_type,     \* self.token_type
  src,            \* which response's pair each stored field was taken from
  lastTrue,       \* the pair of the authenticate() that returned True last
  th,             \* per thread: position, arguments, locals, requests sent
  calls,          \* calls started so far, counted when requests interleave
  poster          \* the module's global poster: None or the object

vars == <<access_token, token_type, src, lastTrue, th, calls, poster>>

NoHeaders == [Authorization |-> <<>>, from |-> <<>>]

\* An entry of the request body that holds a URL: missing, or a string.
NoField == [has |-> FALSE, val |-> <<>>]
NoRequest ==
  [kind |-> "none", title |-> Absent, post_type |-> Absent,
   url |-> NoField, media_url |-> NoField, others |-> FALSE]
NoHttp ==
  [status |-> 0, error |-> "", success |-> FALSE,
   post_id |-> None, post_name |-> None, url |-> ""]

IdleLocal ==
  [ pc |-> "idle", op |-> "none", media_url |-> <<>>,
    entryTok |-> None, entryType |-> None, authCalls |-> 0, authRet |-> "unset",
    auth_response |-> NoAuthResponse, for |-> "none",
    hdrType |-> None, hdrFrom |-> <<>>, headers |-> NoHeaders,
    lease |-> NoLease, content |-> None,
    upRet |-> [tag |-> "unset", val |-> <<>>],
    ret |-> [tag |-> "unset", val |-> NoResult],
    sent |-> <<>>,
    stage |-> "none", req |-> NoRequest, http |-> NoHttp ]

\* RedditAutoPoster.__init__
Init ==
  /\ access_token = None
  /\ token_type = "bearer"
  /\ src = [tok |-> <<None, "bearer">>, typ |-> <<None, "bearer">>]
  /\ lastTrue = <<None, "bearer">>
  /\ th = [t \in Threads |-> IdleLocal]
  /\ calls = 0
  /\ poster = None

Ops == {"authenticate", "post_text", "post_link", "post_media"}
LinkUrl == << "h", "/", "l" >>

\* The (access_token, token_type) pair a 200 response makes authenticate store.
Pair(r) == << DictGet(r.access_token), DictGetDefault(r.token_type, "bearer") >>

----------------------------------------------------------------------------
(* Exception handlers and returns *)

\* authenticate: `except Exception ... return False`
Except_authenticate == "False"

\* Variant: _upload_media without its except clause.
Except_upload_media_reraise == [tag |-> "raised", val |-> <<>>]

\* _upload_media: `except Exception ... return None`
Except_upload_media == [tag |-> "none", val |-> <<>>]

\* post_text / post_link / post_media: `except Exception ... return None`
Except_post == [tag |-> "none", val |-> NoResult]

ReturnNone == [tag |-> "none", val |-> NoResult]

\* The call of thread-local state l ends with return value r.
Done(l, r) == [l EXCEPT !.pc = "done", !.ret = r]

\* First request of a submit operation's try block.
FirstRequest(op) == IF op = "post_media" THEN "lease" ELSE "submit"

\* authenticate() ends with b: back in the caller (`if not
\* self.authenticate(): return None`, which is outside the caller's try).
AuthReturn(l, b) ==
  LET l1 == [l EXCEPT !.authRet = b] IN
  IF l.op = "authenticate"
    THEN Done(l1, [tag |-> IF b = "Raised" THEN "raised" ELSE "bool", val |-> NoResult])
  ELSE IF b = "Raised" THEN Done(l1, [tag |-> "raised", val |-> NoResult])
  ELSE IF b = "False" THEN Done(l1, ReturnNone)
  ELSE [l1 EXCEPT !.pc = "hdr_check", !.for = FirstRequest(l.op)]

\* _upload_media ends with up: back in post_media's try block
\* (`if not uploaded_url: return None`).
AfterUpload(l, up) ==
  LET l1 == [l EXCEPT !.upRet = up] IN
  IF up.tag = "raised" THEN Done(l1, Except_post)
  ELSE IF up.tag = "none" \/ up.val = <<>> THEN Done(l1, ReturnNone)
  ELSE [l1 EXCEPT !.pc = "hdr_check", !.for = "submit"]

\* Variant: a failed submission reauthenticates and tries again.
Raise_reauth(l) ==
  IF l.for = "lease" THEN AfterUpload(l, Except_upload_media)
  ELSE [l EXCEPT !.pc = "auth_req", !.authCalls = @ + 1]

\* An exception raised while the thread builds or sends request l.for.
Raise(l) ==
  IF l.for = "lease" THEN AfterUpload(l, Except_upload_media)
  ELSE Done(l, Except_post)

----------------------------------------------------------------------------
(* authenticate *)

\* Variant: the status test is missing, every answered request is stored.
AuthOutcome_nostatus(r) ==
  IF r.status = Transport THEN "raise" ELSE "store"

\* What authenticate does with the authorization server's answer:
\* "store" the two entries, return "False", or raise inside its try.
AuthOutcome(r) ==
  IF r.status = Transport THEN "raise"
  ELSE IF r.status # 200 THEN "False"
  ELSE IF r.shape # "dict" THEN "raise"
  ELSE "store"

\* Variant: the entry guard is missing, every call authenticates.
NeedsAuth_always(op, tok) == TRUE

\* authenticate() itself, or a submit operation's `if not self.access_token`.
NeedsAuth(op, tok) == op = "authenticate" \/ Falsy(tok)

\* A thread enters one of the public operations.  The submit operations
\* start with `if not self.access_token: if not self.authenticate()`.
CallOf(t, ops) ==
  /\ th[t].pc = "idle"
  /\ \E op \in ops, mu \in MediaUrls :
       LET l0 == [IdleLocal EXCEPT !.op = op, !.entryTok = access_token,
                    !.entryType = token_type,
                    !.media_url = IF op = "post_media" THEN mu
                                  ELSE IF op = "post_link" THEN LinkUrl ELSE <<>>]
       IN  /\ (op # "post_media" => mu = CHOOSE m \in MediaUrls : TRUE)
           /\ th' = [th EXCEPT ![t] =
                 IF NeedsAuth(op, access_token)
                   THEN [l0 EXCEPT !.pc = "auth_req", !.authCalls = 1]
                   ELSE [l0 EXCEPT !.pc = "hdr_check", !.for = FirstRequest(op)]]
  /\ UNCHANGED <<access_token, token_type, src, lastTrue, poster>>

Call(t) == CallOf(t, Ops) /\ UNCHANGED calls

\* requests.post(self.token_url, ...) and the status test.
AuthRequest(t) ==
  /\ th[t].pc = "auth_req"
  /\ \E r \in AuthResponses :
       LET o == AuthOutcome(r) IN
       th' = [th EXCEPT ![t] =
          LET l1 == [@ EXCEPT !.auth_response = r] IN
          CASE o = "store" -> [l1 EXCEPT !.pc = "auth_w1"]
            [] o = "False" -> AuthReturn(l1, "False")
            [] OTHER       -> AuthReturn(l1, Except_authenticate)]
  /\ UNCHANGED <<access_token, token_type, src, lastTrue, calls, poster>>

\* self.access_token = token_data.get('access_token')
AuthStoreToken(t) ==
  /\ th[t].pc = "auth_w1"
  /\ access_token' = DictGet(th[t].auth_response.access_token)
  /\ src' = [src EXCEPT !.tok = Pair(th[t].auth_response)]
  /\ th' = [th EXCEPT ![t].pc = "auth_w2"]
  /\ UNCHANGED <<token_type, lastTrue, calls, poster>>

\* self.token_type = token_data.get('token_type', 'bearer'); return True
AuthStoreType(t) ==
  /\ th[t].pc = "auth_w2"
  /\ token_type' = DictGetDefault(th[t].auth_response.token_type, "bearer")
  /\ src' = [src EXCEPT !.typ = Pair(th[t].auth_response)]
  /\ lastTrue' = Pair(th[t].auth_response)
  /\ th' = [th EXCEPT ![t] = AuthReturn(@, "True")]
  /\ UNCHANGED <<access_token, calls, poster>>

----------------------------------------------------------------------------
(* _get_headers *)

\* Variant: _get_headers without its token test.
HeadersCheck_notest(t) ==
  /\ th[t].pc = "hdr_check"
  /\ th' = [th EXCEPT ![t].pc = "hdr_type"]
  /\ UNCHANGED <<access_token, token_type, src, lastTrue, calls, poster>>

\* if not self.access_token: raise ValueError(...)
HeadersCheck(t) ==
  /\ th[t].pc = "hdr_check"
  /\ th' = [th EXCEPT ![t] =
        IF Falsy(access_token) THEN Raise(@) ELSE [@ EXCEPT !.pc = "hdr_type"]]
  /\ UNCHANGED <<access_token, token_type, src, lastTrue, calls, poster>>

\* self.token_type.capitalize(): the first operand of the f-string.
HeadersType(t) ==
  /\ th[t].pc = "hdr_type"
  /\ th' = [th EXCEPT ![t] =
        IF token_type = None THEN Raise(@)
        ELSE [@ EXCEPT !.pc = "hdr_token", !.hdrType = Capitalize(token_type),
                       !.hdrFrom = src.typ]]
  /\ UNCHANGED <<access_token, token_type, src, lastTrue, calls, poster>>

\* self.access_token: the second operand; the header dict is complete.
HeadersToken(t) ==
  /\ th[t].pc = "hdr_token"
  /\ th' = [th EXCEPT ![t] =
        [@ EXCEPT !.pc = th[t].for,
                  !.headers = [Authorization |-> << th[t].hdrType, access_token >>,
                               from |-> << th[t].hdrFrom, src.tok >>]]]
  /\ UNCHANGED <<access_token, token_type, src, lastTrue, calls, poster>>

----------------------------------------------------------------------------
(* _upload_media *)

LeaseUrl == "https://oauth.reddit.com/api/media/asset"
SubmitUrl == "https://oauth.reddit.com/api/submit"

\* Variant: `if not action and not fields`.
LeaseOutcome_and(r) ==
  IF r.status = Transport THEN "raise"
  ELSE IF r.status # 200 THEN "fail"
  ELSE IF r.shape # "dict" THEN "raise"
  ELSE IF Falsy(DictGet(r.action)) /\ (~r.has_fields \/ r.fields = <<>>) THEN "fail"
  ELSE "ok"

\* The Lease step's verdict on the asset endpoint's answer: status test,
\* JSON parse, then `if not action or not fields`.
LeaseOutcome(r) ==
  IF r.status = Transport THEN "raise"
  ELSE IF r.status # 200 THEN "fail"
  ELSE IF r.shape # "dict" THEN "raise"
  ELSE IF Falsy(DictGet(r.action)) \/ ~r.has_fields \/ r.fields = <<>> THEN "fail"
  ELSE "ok"

\* The request just sent, appended to the call's record of requests.
Sent(l, kind, hdr, target, data, resp) ==
  [l EXCEPT !.sent = Append(@,
      [kind |-> kind, hdr |-> hdr, target |-> target, data |-> data, resp |-> resp])]

\* Step 1: requests.post(.../api/media/asset, headers, lease_data).
Lease(t) ==
  /\ th[t].pc = "lease"
  /\ \E r \in LeaseResponses :
       LET fn == Filename(th[t].media_url)
           l1 == Sent(th[t], "lease", th[t].headers, LeaseUrl,
                      [filepath |-> fn, mimetype |-> MimeType(fn)], r)
           o  == LeaseOutcome(r)
       IN  th' = [th EXCEPT ![t] =
             CASE o = "ok"   -> [l1 EXCEPT !.pc = "fetch", !.lease = r]
               [] o = "fail" -> AfterUpload(l1, [tag |-> "none", val |-> <<>>])
               [] OTHER      -> Raise(l1)]
  /\ UNCHANGED <<access_token, token_type, src, lastTrue, calls, poster>>

\* Variant: the download's status test is missing.
Fetch_nostatus(t) ==
  /\ th[t].pc = "fetch"
  /\ \E r \in FetchResponses :
       LET l1 == Sent(th[t], "fetch", NoHeaders, "media_url", th[t].media_url, r) IN
       th' = [th EXCEPT ![t] =
         IF r.status = Transport THEN Raise(l1)
         ELSE [l1 EXCEPT !.pc = "upload", !.content = r.content]]
  /\ UNCHANGED <<access_token, token_type, src, lastTrue, calls, poster>>

\* Step 2: requests.get(media_url).
Fetch(t) ==
  /\ th[t].pc = "fetch"
  /\ \E r \in FetchResponses :
       LET l1 == Sent(th[t], "fetch", NoHeaders, "media_url", th[t].media_url, r) IN
       th' = [th EXCEPT ![t] =
         IF r.status = Transport THEN Raise(l1)
         ELSE IF r.status # 200 THEN AfterUpload(l1, [tag |-> "none", val |-> <<>>])
         ELSE [l1 EXCEPT !.pc = "upload", !.content = r.content]]
  /\ UNCHANGED <<access_token, token_type, src, lastTrue, calls, poster>>

\* The form and target of the storage upload.
UploadTarget(action) == "https:" \o action
UploadData(fields) == FormFrom(fields, Len(fields))

\* Step 3 and the Location parse: build upload_data, requests.post to
\* https:<action>, status test, substring search.
Upload(t) ==
  /\ th[t].pc = "upload"
  /\ \/ /\ FormRaises(th[t].lease.fields)
        /\ th' = [th EXCEPT ![t] = Raise(@)]
     \/ /\ ~FormRaises(th[t].lease.fields)
        /\ \E r \in UploadResponses :
             LET fn == Filename(th[t].media_url)
                 l1 == Sent(th[t], "upload", NoHeaders, UploadTarget(th[t].lease.action),
                            [form |-> UploadData(th[t].lease.fields),
                             file |-> [filename |-> fn, content |-> th[t].content,
                                       mimetype |-> MimeType(fn)]], r)
             IN  th' = [th EXCEPT ![t] =
                   IF r.status = Transport THEN Raise(l1)
                   ELSE IF r.status # 200 THEN AfterUpload(l1, [tag |-> "none", val |-> <<>>])
                   ELSE IF HasLocation(r.text)
                     THEN AfterUpload(l1, [tag |-> "loc", val |-> Locate(r.text)])
                   ELSE AfterUpload(l1, [tag |-> "none", val |-> <<>>])]
  /\ UNCHANGED <<access_token, token_type, src, lastTrue, calls, poster>>

----------------------------------------------------------------------------
(* Submission: the common tail of post_text, post_link and post_media *)

\* Variant: the media submission carries the caller's URL.
SubmitData_callerurl(l) ==
  CASE l.op = "post_text" -> [kind |-> "self", url |-> <<>>]
    [] l.op = "post_link" -> [kind |-> "link", url |-> l.media_url]
    [] OTHER -> [kind |-> MediaKind(l.media_url), url |-> l.media_url]

\* The form payload of the submission.
SubmitData(l) ==
  CASE l.op = "post_text" -> [kind |-> "self", url |-> <<>>]
    [] l.op = "post_link" -> [kind |-> "link", url |-> l.media_url]
    [] OTHER -> [kind |-> MediaKind(l.media_url), url |-> l.upRet.val]

\* Variant: the errors entry is not looked at.
SubmitOutcome_noerrors(r) ==
  IF r.status = Transport THEN "raise"
  ELSE IF r.status # 200 THEN "none"
  ELSE IF r.shape \notin {"dict", "emptydict"} THEN "raise"
  ELSE IF r.json = "null" THEN "raise"
  ELSE "result"

\* The verdict on the submission endpoint's answer.
SubmitOutcome(r) ==
  IF r.status = Transport THEN "raise"
  ELSE IF r.status # 200 THEN "none"
  ELSE IF r.shape \notin {"dict", "emptydict"} THEN "raise"
  ELSE IF r.json = "null" THEN "raise"
  ELSE IF r.json = "obj" /\ r.errors = "nonempty" THEN "none"
  ELSE "result"

\* Variant: a rejected submission clears the stored token.
Submit_clears(t) ==
  /\ th[t].pc = "submit"
  /\ \E r \in SubmitResponses :
       LET l1 == Sent(th[t], "submit", th[t].headers, SubmitUrl, SubmitData(th[t]), r)
           o  == SubmitOutcome(r)
       IN  /\ th' = [th EXCEPT ![t] =
                 CASE o = "result" -> Done(l1, [tag |-> "result", val |-> r])
                   [] o = "none"   -> Done(l1, ReturnNone)
                   [] OTHER        -> Raise(l1)]
           /\ access_token' = IF r.status = 401 THEN None ELSE access_token
  /\ UNCHANGED <<token_type, src, lastTrue, calls, poster>>

\* requests.post(.../api/submit, headers, data) and the envelope parse.
Submit(t) ==
  /\ th[t].pc = "submit"
  /\ \E r \in SubmitResponses :
       LET l1 == Sent(th[t], "submit", th[t].headers, SubmitUrl, SubmitData(th[t]), r)
           o  == SubmitOutcome(r)
       IN  th' = [th EXCEPT ![t] =
             CASE o = "result" -> Done(l1, [tag |-> "result", val |-> r])
               [] o = "none"   -> Done(l1, ReturnNone)
               [] OTHER        -> Raise(l1)]
  /\ UNCHANGED <<access_token, token_type, src, lastTrue, calls, poster>>

\* The caller takes the return value; the thread is free again.
Return(t) ==
  /\ th[t].pc = "done"
  /\ th' = [th EXCEPT ![t] = IdleLocal]
  /\ UNCHANGED <<access_token, token_type, src, lastTrue, calls, poster>>

----------------------------------------------------------------------------
(* The service: init_poster and POST /post *)

\* load_config: the file holds real credentials, or the example placeholders
\* (the example is also what load_config writes when the file is missing).
Configs == {"ok", "placeholder"}

Titles == {Absent, "", "T"}
PostTypes == {Absent, "media", "link", "self", "poll"}
UrlValues == {NoField, [has |-> TRUE, val |-> <<>>], [has |-> TRUE, val |-> LinkUrl]}
MediaUrlValues ==
  {NoField, [has |-> TRUE, val |-> << "h", "/", "b", ".", "m", "p", "4" >>]}

\* The empty JSON object.
EmptyObject == [NoRequest EXCEPT !.kind = "object"]

\* Request bodies: not JSON, the JSON null, a JSON list, and JSON objects
\* (others: the object has entries such as text or subreddit). The empty
\* url is tried in the bodies without media_url.
Requests ==
  {[NoRequest EXCEPT !.kind = k] : k \in {"notjson", "null", "nondict"}}
  \cup {EmptyObject}
  \cup {r \in [kind : {"object"}, title : Titles, post_type : PostTypes, url : UrlValues,
                media_url : MediaUrlValues, others : {TRUE}] :
          (r.url.has /\ r.url.val = <<>>) => ~r.media_url.has}

\* `if url:` / `if media_url:` on the value of data.get(...)
Truthy(f) == f.has /\ f.val # <<>>

\* The checks of the request body before the dispatch.
Validate(req) ==
  IF req.kind = "notjson" THEN "raise"
  ELSE IF req.kind = "null" \/ req = EmptyObject THEN "nodata"
  ELSE IF req.kind = "nondict" THEN "raise"
  ELSE IF Falsy(DictGet(req.title)) THEN "notitle"
  ELSE "ok"

\* Variant: the link test comes before the media test.
Dispatch_urlfirst(req) ==
  LET post_type == IF Falsy(DictGet(req.post_type))
                     THEN IF Truthy(req.url) THEN "link"
                          ELSE IF Truthy(req.media_url) THEN "media" ELSE "self"
                     ELSE req.post_type
  IN  IF post_type = "link" /\ Truthy(req.url) THEN "post_link"
      ELSE IF post_type = "media" /\ Truthy(req.media_url) THEN "post_media"
      ELSE "post_text"

\* Variant: an explicit post_type of link is taken at its word.
Dispatch_trusting(req) ==
  LET post_type == IF Falsy(DictGet(req.post_type))
                     THEN IF Truthy(req.media_url) THEN "media"
                          ELSE IF Truthy(req.url) THEN "link" ELSE "self"
                     ELSE req.post_type
  IN  IF post_type = "media" /\ Truthy(req.media_url) THEN "post_media"
      ELSE IF post_type = "link" THEN "post_link"
      ELSE "post_text"

\* Auto-detection of the post type and the choice of the operation.
Dispatch(req) ==
  LET post_type == IF Falsy(DictGet(req.post_type))
                     THEN IF Truthy(req.media_url) THEN "media"
                          ELSE IF Truthy(req.url) THEN "link" ELSE "self"
                     ELSE req.post_type
  IN  IF post_type = "media" /\ Truthy(req.media_url) THEN "post_media"
      ELSE IF post_type = "link" /\ Truthy(req.url) THEN "post_link"
      ELSE "post_text"

\* return jsonify({"error": msg}), status
Answer(l, status, msg) ==
  [l EXCEPT !.pc = "responded", !.http = [NoHttp EXCEPT !.status = status, !.error = msg]]

\* json.data of a successful submission, and post_data.get(...)
PostData(r) ==
  IF r.data = "obj" THEN [id |-> "abc", name |-> "t3_abc", permalink |-> "/r/test/abc"]
  ELSE [id |-> Absent, name |-> Absent, permalink |-> Absent]

\* Variant: any result other than None is a success.
ResponseOf_notnone(ret) ==
  IF ret.tag = "raised" THEN [NoHttp EXCEPT !.status = 500, !.error = "exception"]
  ELSE IF ret.tag # "result"
    THEN [NoHttp EXCEPT !.status = 500, !.error = "Failed to publish post"]
  ELSE IF ret.val.data = "null" THEN [NoHttp EXCEPT !.status = 500, !.error = "exception"]
  ELSE [status |-> 200, error |-> "", success |-> TRUE,
        post_id |-> DictGet(PostData(ret.val).id),
        post_name |-> DictGet(PostData(ret.val).name),
        url |-> "https://reddit.com" \o DictGetDefault(PostData(ret.val).permalink, "")]

\* `if result:` and what follows: the response for the operation's return.
ResponseOf(ret) ==
  IF ret.tag = "raised" THEN [NoHttp EXCEPT !.status = 500, !.error = "exception"]
  ELSE IF ret.tag # "result" \/ ret.val.shape = "emptydict"
    THEN [NoHttp EXCEPT !.status = 500, !.error = "Failed to publish post"]
  ELSE IF ret.val.data = "null" THEN [NoHttp EXCEPT !.status = 500, !.error = "exception"]
  ELSE [status |-> 200, error |-> "", success |-> TRUE,
        post_id |-> DictGet(PostData(ret.val).id),
        post_name |-> DictGet(PostData(ret.val).name),
        url |-> "https://reddit.com" \o DictGetDefault(PostData(ret.val).permalink, "")]

\* The try block of post_to_reddit up to the call of the operation; l holds
\* the request and the authenticate() calls made for it so far.
Handle(l, tok, typ) ==
  LET v  == Validate(l.req)
      op == Dispatch(l.req)
      l0 == [IdleLocal EXCEPT !.req = l.req, !.stage = "post", !.authCalls = l.authCalls,
               !.op = op, !.entryTok = tok, !.entryType = typ,
               !.media_url = IF op = "post_media" THEN l.req.media_url.val
                             ELSE IF op = "post_link" THEN l.req.url.val ELSE <<>>]
  IN  CASE v = "raise"   -> Answer(l, 500, "exception")
        [] v = "nodata"  -> Answer(l, 400, "No JSON data provided")
        [] v = "notitle" -> Answer(l, 400, "Missing required field: title")
        [] OTHER ->
             IF NeedsAuth(op, tok)
               THEN [l0 EXCEPT !.pc = "auth_req", !.authCalls = @ + 1]
               ELSE [l0 EXCEPT !.pc = "hdr_check", !.for = FirstRequest(op)]

\* A POST /post arrives. With poster None, init_poster runs first: the
\* placeholder test, then poster = RedditAutoPoster(...), then authenticate().
Request(t) ==
  /\ th[t].pc = "idle"
  /\ \E req \in Requests, cfg \in Configs :
       LET l == [IdleLocal EXCEPT !.req = req] IN
       IF poster = None
         THEN IF cfg = "placeholder"
                THEN /\ th' = [th EXCEPT ![t] =
                           Answer([l EXCEPT !.stage = "init"], 500, "Failed to initialize poster")]
                     /\ UNCHANGED <<access_token, token_type, src, lastTrue, poster>>
                ELSE /\ poster' = "set"
                     /\ access_token' = None
                     /\ token_type' = "bearer"
                     /\ src' = [tok |-> <<None, "bearer">>, typ |-> <<None, "bearer">>]
                     /\ lastTrue' = <<None, "bearer">>
                     /\ th' = [th EXCEPT ![t] =
                           [l EXCEPT !.stage = "init", !.op = "authenticate", !.pc = "auth_req",
                                     !.entryTok = None, !.entryType = "bearer", !.authCalls = 1]]
         ELSE /\ cfg = "ok"
              /\ th' = [th EXCEPT ![t] = Handle(l, access_token, token_type)]
              /\ UNCHANGED <<access_token, token_type, src, lastTrue, poster>>
  /\ UNCHANGED calls

\* Variant: a failed authentication takes the poster away again.
InitDone_reset(t) ==
  /\ th[t].pc = "done" /\ th[t].stage = "init"
  /\ th' = [th EXCEPT ![t] =
       IF th[t].authRet = "True" THEN Handle(th[t], access_token, token_type)
       ELSE Answer(th[t], 500, "Failed to initialize poster")]
  /\ poster' = IF th[t].authRet = "True" THEN poster ELSE None
  /\ UNCHANGED <<access_token, token_type, src, lastTrue, calls>>

\* init_poster's authenticate() is back: `if not poster.authenticate():
\* raise ValueError`, caught by post_to_reddit; otherwise the request goes on.
InitDone(t) ==
  /\ th[t].pc = "done" /\ th[t].stage = "init"
  /\ th' = [th EXCEPT ![t] =
       IF th[t].authRet = "True" THEN Handle(th[t], access_token, token_type)
       ELSE Answer(th[t], 500, "Failed to initialize poster")]
  /\ UNCHANGED <<access_token, token_type, src, lastTrue, calls, poster>>

\* The operation is back, its locals are gone; the response is built from
\* its result.
Respond(t) ==
  /\ th[t].pc = "done" /\ th[t].stage = "post"
  /\ th' = [th EXCEPT ![t] =
       [IdleLocal EXCEPT !.pc = "responded", !.stage = "post", !.req = th[t].req,
                         !.op = th[t].op, !.authCalls = th[t].authCalls,
                         !.ret = th[t].ret, !.http = ResponseOf(th[t].ret)]]
  /\ UNCHANGED <<access_token, token_type, src, lastTrue, calls, poster>>

\* The response is sent; the thread is free again.
Finish(t) ==
  /\ th[t].pc = "responded"
  /\ th' = [th EXCEPT ![t] = IdleLocal]
  /\ UNCHANGED <<access_token, token_type, src, lastTrue, calls, poster>>

----------------------------------------------------------------------------
(* Specifications *)

Step(t) ==
  \/ AuthRequest(t) \/ AuthStoreToken(t) \/ AuthStoreType(t)
  \/ HeadersCheck(t) \/ HeadersType(t) \/ HeadersToken(t)
  \/ Lease(t) \/ Fetch(t) \/ Upload(t) \/ Submit(t) \/ Return(t)

\* One request at a time: a call starts only when no other is in progress,
\* and it is served by the one worker thread.
Quiet == \A u \in Threads : th[u].pc = "idle"
Worker == CHOOSE t \in Threads : TRUE

Next == \E t \in Threads : (Quiet /\ t = Worker /\ Call(t)) \/ Step(t)

Spec == Init /\ [][Next]_vars

\* Requests served concurrently: text and link submissions and
\* authenticate() calls of several threads interleave statement by statement.
ConcOps == {"authenticate", "post_text", "post_link"}
CallConc(t) == calls < MaxCalls /\ calls' = calls + 1 /\ CallOf(t, ConcOps)

NextConc ==
  \E t \in Threads :
    \/ CallConc(t)
    \/ AuthRequest(t) \/ AuthStoreToken(t) \/ AuthStoreType(t)
    \/ HeadersCheck(t) \/ HeadersType(t) \/ HeadersToken(t)
    \/ Submit(t) \/ Return(t)

SpecConc == Init /\ [][NextConc]_vars

\* The service, one request at a time. Every remote call is made with a
\* timeout, so a thread that has a step to take takes it.
StepSvc(t) ==
  \/ AuthRequest(t) \/ AuthStoreToken(t) \/ AuthStoreType(t)
  \/ HeadersCheck(t) \/ HeadersType(t) \/ HeadersToken(t)
  \/ Lease(t) \/ Fetch(t) \/ Upload(t) \/ Submit(t)
  \/ InitDone(t) \/ Respond(t) \/ Finish(t)

NextSvc == \E t \in Threads : (Quiet /\ t = Worker /\ Request(t)) \/ StepSvc(t)
SpecSvc == Init /\ [][NextSvc]_vars /\ \A t \in Threads : WF_vars(StepSvc(t))

----------------------------------------------------------------------------
(* Properties *)

SubmitOps == {"post_text", "post_link", "post_media"}
AuthorizedKinds == {"lease", "submit"}

\* The requests of kind k that thread t has sent in its current call.
SentOf(t, k) == {i \in 1..Len(th[t].sent) : th[t].sent[i].kind = k}

C2_Non200IsFinal ==
  \A t \in Threads :
    /\ \A i \in 1..Len(th[t].sent) :
         th[t].sent[i].resp.status # 200 =>
           /\ i = Len(th[t].sent)
           /\ th[t].pc = "done"
           /\ th[t].ret.tag = "none"
           /\ th[t].sent[i].kind # "submit" => th[t].upRet.tag = "none"
    /\ th[t].upRet.tag = "none" =>
         th[t].pc = "done" /\ th[t].ret.tag = "none" /\ SentOf(t, "submit") = {}

\* The download was answered 401 after a good lease.
C2_Witness ==
  \E t \in Threads :
    /\ Len(th[t].sent) = 2
    /\ th[t].sent[2].kind = "fetch" /\ th[t].sent[2].resp.status = 401
    /\ th[t].pc = "done"

\* C3: authenticate() that got 200 with an access token leaves a token in
\* the store, and a submit call entered with a token in the store makes no
\* authenticate() attempt at all.
C3_NoReauthWithToken ==
  \A t \in Threads :
    /\ ( /\ th[t].op = "authenticate" /\ th[t].pc = "done"
         /\ th[t].authRet = "True"
         /\ ~Falsy(DictGet(th[t].auth_response.access_token)) )
       => ~Falsy(access_token)
    /\ (th[t].op \in SubmitOps /\ ~Falsy(th[t].entryTok))
       => th[t].authCalls = 0 /\ th[t].authRet = "unset"

\* A submit call that found the token of the last successful authenticate()
\* has sent its submission and returned.
C3_Witness ==
  \E t \in Threads :
    /\ th[t].op \in SubmitOps /\ th[t].pc = "done"
    /\ ~Falsy(th[t].entryTok) /\ th[t].entryTok = lastTrue[1]
    /\ SentOf(t, "submit") # {}

\* C4: a call sends at most one submission POST and makes at most one
\* authenticate() attempt; a submission that failed is the end of the call.
C4_SingleAttempt ==
  \A t \in Threads :
    /\ Cardinality(SentOf(t, "submit")) <= 1
    /\ th[t].authCalls <= 1
    /\ \A i \in SentOf(t, "submit") :
         /\ i = Len(th[t].sent)
         /\ th[t].pc = "done"
         /\ th[t].authRet \in {"unset", "True"}

\* A submission that was answered with structured errors, after the call
\* had authenticated.
C4_Witness ==
  \E t \in Threads :
    /\ th[t].authCalls = 1 /\ th[t].pc = "done" /\ th[t].ret.tag = "none"
    /\ \E i \in SentOf(t, "submit") :
         th[t].sent[i].resp.status = 200 /\ th[t].sent[i].resp.errors = "nonempty"

\* C5: authenticate() that got a status other than 200, or no answer at
\* all, returns False and both stored fields are what they were at entry.
C5_FailedAuthKeepsToken ==
  \A t \in Threads :
    (th[t].authCalls = 1 /\ th[t].authRet # "unset"
       /\ th[t].auth_response.status # 200)
    => /\ th[t].authRet = "False"
       /\ access_token = th[t].entryTok
       /\ token_type = th[t].entryType

\* authenticate() called with a token in the store was answered 401.
C5_Witness ==
  \E t \in Threads :
    /\ th[t].op = "authenticate" /\ th[t].pc = "done"
    /\ th[t].auth_response.status = 401
    /\ ~Falsy(th[t].entryTok) /\ access_token = th[t].entryTok

\* C6: with requests interleaved, the stored (access_token, token_type)
\* pair and the pair a request reads for its Authorization header come
\* whole from one successful authentication response, and once every call
\* has ended the stored pair is that of the authenticate() that returned
\* True last.
C6_TokenPairWhole ==
  /\ \A t \in Threads :
       th[t].headers # NoHeaders => th[t].headers.from[1] = th[t].headers.from[2]
  /\ (\A t \in Threads : th[t].pc # "auth_w2") => src.tok = src.typ
  /\ (\A t \in Threads : th[t].pc \in {"idle", "done"})
       => << access_token, token_type >> = lastTrue

\* C7: authenticate(), _upload_media and the submit operations never end in
\* a raised exception: authenticate returns a boolean, _upload_media a
\* location or None, a submit operation a result or None.
C7_NoExceptionEscapes ==
  \A t \in Threads :
    /\ th[t].authRet \in {"unset", "True", "False"}
    /\ th[t].upRet.tag \in {"unset", "none", "loc"}
    /\ th[t].ret.tag \in {"unset", "bool", "none", "result"}
    /\ th[t].pc = "done" =>
         IF th[t].op = "authenticate" THEN th[t].ret.tag = "bool"
         ELSE th[t].ret.tag \in {"none", "result"}

\* The asset-lease request of a post_media call failed in transport.
C7_Witness ==
  \E t \in Threads :
    /\ th[t].op = "post_media" /\ th[t].pc = "done"
    /\ Len(th[t].sent) = 1 /\ th[t].sent[1].resp.status = Transport
    /\ th[t].upRet.tag = "none" /\ th[t].ret.tag = "none"

\* The lease answer carries an action fragment and a non-empty fields list.
LeaseGood(r) ==
  /\ r.status = 200 /\ r.shape = "dict"
  /\ ~Falsy(DictGet(r.action))
  /\ r.has_fields /\ r.fields # <<>>

\* C8: a submission POST of post_media is the fourth request of the call,
\* after a good lease, a 200 download of the caller's media URL and a 200
\* upload whose body holds a Location, in that order, and its `url` is the
\* location cut from that upload body.
C8_MediaSubmitAfterUpload ==
  \A t \in Threads :
    th[t].op = "post_media" =>
      \A i \in SentOf(t, "submit") :
        /\ i = 4
        /\ th[t].sent[1].kind = "lease" /\ LeaseGood(th[t].sent[1].resp)
        /\ th[t].sent[2].kind = "fetch" /\ th[t].sent[2].resp.status = 200
        /\ th[t].sent[2].data = th[t].media_url
        /\ th[t].sent[3].kind = "upload" /\ th[t].sent[3].resp.status = 200
        /\ HasLocation(th[t].sent[3].resp.text)
        /\ th[t].sent[4].data.url = Locate(th[t].sent[3].resp.text)
        /\ th[t].sent[4].data.url # <<>>

\* A media submission was sent and accepted.
C8_Witness ==
  \E t \in Threads :
    /\ th[t].op = "post_media" /\ th[t].pc = "done"
    /\ SentOf(t, "submit") # {} /\ th[t].ret.tag = "result"

\* C9: a download or an upload is sent only after a lease answer with
\* status 200, an action and a non-empty fields list; any other lease
\* answer ends _upload_media with None, the lease being its only request.
C9_LeaseGate ==
  \A t \in Threads :
    /\ (SentOf(t, "fetch") \cup SentOf(t, "upload")) # {} =>
         th[t].sent[1].kind = "lease" /\ LeaseGood(th[t].sent[1].resp)
    /\ \A i \in SentOf(t, "lease") :
         ~LeaseGood(th[t].sent[i].resp) =>
           /\ Len(th[t].sent) = 1
           /\ th[t].pc = "done"
           /\ th[t].upRet.tag = "none"

\* A 200 lease answer with fields but without an action ended the call.
C9_Witness ==
  \E t \in Threads :
    /\ th[t].pc = "done" /\ Len(th[t].sent) = 1
    /\ th[t].sent[1].kind = "lease"
    /\ th[t].sent[1].resp.status = 200 /\ th[t].sent[1].resp.shape = "dict"
    /\ th[t].sent[1].resp.action = Absent
    /\ th[t].sent[1].resp.has_fields /\ th[t].sent[1].resp.fields # <<>>

\* C10: the upload goes to "https:" followed by the lease's action, and its
\* form carries every (name, value) pair of the lease's fields list.
C10_AllLeaseFieldsCarried ==
  \A t \in Threads :
    \A i \in SentOf(t, "upload") :
      LET F == th[t].sent[1].resp.fields
          form == th[t].sent[i].data.form
      IN  /\ th[t].sent[i].target = "https:" \o th[t].sent[1].resp.action
          /\ \A k \in 1..Len(F) :
               F[k].name \in DOMAIN form /\ form[F[k].name] = F[k].value

\* C11: for an upload body that holds <Location>, the Locate step returns
\* the text that stands between the first <Location> and a </Location>
\* that closes it; for a body without <Location> it returns None.
C11_LocationBetweenTags ==
  \A t \in Threads :
    \A i \in SentOf(t, "upload") :
      LET text == th[t].sent[i].resp.text
          open == Find(text, LocationOpen)
          val  == th[t].upRet.val
      IN  th[t].sent[i].resp.status = 200 =>
            IF open # -1
              THEN /\ th[t].upRet.tag = "loc"
                   /\ SubSeq(text, open + 11, open + 10 + Len(val)) = val
                   /\ OccursAt(text, LocationClose, open + 10 + Len(val))
              ELSE th[t].upRet.tag = "none"

\* u ends with x; x occurs in u.
HasSuffix(u, x) == Len(u) >= Len(x) /\ SubSeq(u, Len(u) - Len(x) + 1, Len(u)) = x
HasInfix(u, x) == \E k \in 1..Len(u) : k + Len(x) - 1 <= Len(u) /\ SubSeq(u, k, k + Len(x) - 1) = x

\* C16 as stated: any video file extension makes the submission a video.
C16_KindByVideoExtension ==
  \A t \in Threads :
    th[t].op = "post_media" =>
      \A i \in SentOf(t, "submit") :
        LET u == Lower(th[t].media_url) IN
        th[t].sent[i].data.kind =
          IF (\E x \in {DotMp4, DotMov} : HasSuffix(u, x)) \/ HasInfix(u, VideoWord)
            THEN "video" ELSE "image"

\* C16: the kind of a media submission is video when the caller's URL,
\* lower-cased, ends with .mp4 or holds "video", and image otherwise.
C16_KindByMp4OrVideo ==
  \A t \in Threads :
    th[t].op = "post_media" =>
      \A i \in SentOf(t, "submit") :
        LET u == Lower(th[t].media_url) IN
        th[t].sent[i].data.kind =
          IF HasSuffix(u, DotMp4) \/ HasInfix(u, VideoWord) THEN "video" ELSE "image"

\* A media submission for a URL that holds "video" in mixed case.
C16_Witness ==
  \E t \in Threads :
    /\ th[t].op = "post_media" /\ SentOf(t, "submit") # {}
    /\ th[t].media_url = << "V", "i", "D", "e", "o" >>
    /\ \A i \in SentOf(t, "submit") : th[t].sent[i].data.kind = "video"

\* C19: after authenticate() has returned True the stored access token is
\* not null.
C19_TrueMeansToken ==
  \A t \in Threads : th[t].authRet = "True" => access_token # None

\* C20: a submit operation entered with a token in the store makes no
\* authenticate() attempt and none of its steps changes access_token or
\* token_type, whatever the remote side answers.
C20_SubmitKeepsToken ==
  [][ \A t \in Threads :
        (th'[t].op \in SubmitOps /\ ~Falsy(th'[t].entryTok)) =>
          /\ access_token' = access_token /\ token_type' = token_type
          /\ access_token' = th'[t].entryTok /\ token_type' = th'[t].entryType
          /\ th'[t].authCalls = 0 ]_vars

\* A submission with the held token was answered 401; the token is still
\* the one the call found.
C20_Witness ==
  \E t \in Threads :
    /\ th[t].op \in SubmitOps /\ th[t].pc = "done" /\ ~Falsy(th[t].entryTok)
    /\ \E i \in SentOf(t, "submit") : th[t].sent[i].resp.status = 401
    /\ th[t].authCalls = 0 /\ access_token = th[t].entryTok

\* A URL entry of the body is set: present and not the empty string.
IsSet(f) == f.has /\ Len(f.val) > 0
Dispatched(t) == th[t].stage = "post"

\* C12: for a request without post_type the operation dispatched is
\* post_media when media_url is set, post_link when url is set and media_url
\* is not, and post_text when neither is set.
C12_InferredDispatch ==
  \A t \in Threads :
    (Dispatched(t) /\ th[t].req.post_type = Absent) =>
      /\ IsSet(th[t].req.media_url) =>
           /\ th[t].op = "post_media"
           /\ (th[t].pc # "responded" => th[t].media_url = th[t].req.media_url.val)
      /\ (IsSet(th[t].req.url) /\ ~IsSet(th[t].req.media_url)) => th[t].op = "post_link"
      /\ (~IsSet(th[t].req.url) /\ ~IsSet(th[t].req.media_url)) => th[t].op = "post_text"

\* A request without post_type and with both url and media_url has got as
\* far as its media submission.
C12_Witness ==
  \E t \in Threads :
    /\ Dispatched(t) /\ th[t].req.post_type = Absent
    /\ IsSet(th[t].req.media_url) /\ IsSet(th[t].req.url)
    /\ th[t].op = "post_media" /\ SentOf(t, "submit") # {}

\* C18: for a request with an explicit post_type, post_media is dispatched
\* only for `media` with media_url set, post_link only for `link` with url
\* set, post_text in every other case; one operation per request, which
\* sends at most one submission.
C18_ExplicitDispatch ==
  \A t \in Threads :
    (Dispatched(t) /\ th[t].req.post_type # Absent) =>
      /\ th[t].op = "post_media" <=> (th[t].req.post_type = "media" /\ IsSet(th[t].req.media_url))
      /\ th[t].op = "post_link" <=> (th[t].req.post_type = "link" /\ IsSet(th[t].req.url))
      /\ th[t].op \in SubmitOps
      /\ Cardinality(SentOf(t, "submit")) <= 1

\* A request for `media` without media_url, but with a url, was served by a
\* text submission.
C18_Witness ==
  \E t \in Threads :
    /\ Dispatched(t) /\ th[t].req.post_type = "media"
    /\ ~IsSet(th[t].req.media_url) /\ IsSet(th[t].req.url)
    /\ th[t].op = "post_text" /\ th[t].pc = "done"
    /\ \E i \in SentOf(t, "submit") : th[t].sent[i].data.kind = "self"

\* The body of the request is a JSON object without a title, or with an
\* empty one.
NoTitle(req) == req.kind = "object" /\ req.title \in {Absent, ""}
HasTitle(req) == req.kind = "object" /\ req.title \notin {Absent, ""}

\* C13: a request whose JSON body has no title, or an empty one, is
\* answered 400 with the message that names title, and no request was sent
\* to the remote platform for it.
C13_NoTitleIs400 ==
  \A t \in Threads :
    (th[t].pc = "responded" /\ NoTitle(th[t].req)) =>
      /\ th[t].http.status = 400
      /\ th[t].http.error = "Missing required field: title"
      /\ th[t].authCalls = 0 /\ th[t].sent = <<>>

\* The answers of the submission endpoint that C14 calls a success, and
\* those for which the service answers 200.
AnsweredWithoutErrors(r) == r.status = 200 /\ r.errors # "nonempty"
AnsweredUsable(r) ==
  /\ r.status = 200 /\ r.shape = "dict" /\ r.json # "null"
  /\ r.errors # "nonempty" /\ r.data # "null"

\* The 200 body for the answer r of the submission endpoint.
SuccessBody(r) ==
  [status |-> 200, error |-> "", success |-> TRUE,
   post_id |-> IF r.data = "obj" THEN "abc" ELSE None,
   post_name |-> IF r.data = "obj" THEN "t3_abc" ELSE None,
   url |-> IF r.data = "obj" THEN "https://reddit.com/r/test/abc" ELSE "https://reddit.com"]

\* C14 as stated: a request with a title is answered 200 exactly when the
\* submission endpoint answered 200 without a non-empty json.errors.
C14_SuccessIffNoErrors ==
  [][ \A t \in Threads :
        (th[t].pc # "responded" /\ th'[t].pc = "responded" /\ HasTitle(th'[t].req)) =>
          IF \E i \in SentOf(t, "submit") : AnsweredWithoutErrors(th[t].sent[i].resp)
            THEN th'[t].http.status = 200 /\ th'[t].http.success
            ELSE th'[t].http.status = 500 /\ ~th'[t].http.success ]_vars

\* C14: a request with a title is answered 200 exactly when the submission
\* endpoint answered 200 with a non-empty JSON object whose json entry is
\* not null, holds no non-empty errors and no null data; the body then holds
\* json.data's id, name and "https://reddit.com" followed by its permalink
\* (None, None and "https://reddit.com" without json.data). Every other
\* request with a title is answered 500.
C14_SuccessIffUsableAnswer ==
  [][ \A t \in Threads :
        (th[t].pc # "responded" /\ th'[t].pc = "responded" /\ HasTitle(th'[t].req)) =>
          IF \E i \in SentOf(t, "submit") : AnsweredUsable(th[t].sent[i].resp)
            THEN \E i \in SentOf(t, "submit") : th'[t].http = SuccessBody(th[t].sent[i].resp)
            ELSE /\ th'[t].http.status = 500 /\ ~th'[t].http.success
                 /\ th'[t].http.error # "" ]_vars

\* The stubbed end-to-end answer: 200 with id abc, name t3_abc and the
\* permalink appended to https://reddit.com.
C14_Witness ==
  \E t \in Threads :
    /\ th[t].pc = "responded" /\ HasTitle(th[t].req)
    /\ th[t].ret.tag = "result" /\ th[t].ret.val.data = "obj"
    /\ th[t].http.status = 200 /\ th[t].http.post_id = "abc"
    /\ th[t].http.post_name = "t3_abc"
    /\ th[t].http.url = "https://reddit.com/r/test/abc"

\* The submission endpoint answered 200 with a json object.
Envelope(r) == r.status = 200 /\ r.shape = "dict" /\ r.json = "obj"

C17_BoundedTermination ==
  /\ [](\A t \in Threads :
          /\ th[t].authCalls <= 1
          /\ \A k \in {"lease", "fetch", "upload", "submit"} : Cardinality(SentOf(t, k)) <= 1)
  /\ \A t \in Threads : (th[t].pc # "idle") ~> (th[t].pc = "responded")

\* C21: when init_poster's authenticate() fails, the request is answered
\* 500 and poster stays assigned; poster, once assigned, is never None
\* again; a request that arrives while poster is assigned runs no
\* initialisation, and authenticates only inside its submit operation, when
\* that finds no token.
C21_PosterStaysAssigned ==
  [][ \A t \in Threads :
        /\ (th[t].pc = "done" /\ th[t].stage = "init" /\ th[t].authRet # "True") =>
             /\ th'[t].pc = "responded" /\ th'[t].http.status = 500
             /\ poster' # None
        /\ poster # None => poster' = poster
        /\ (poster # None /\ th[t].pc = "idle" /\ th'[t].pc # "idle") =>
             /\ th'[t].stage # "init" /\ th'[t].op # "authenticate"
             /\ th'[t].http.error # "Failed to initialize poster"
             /\ th'[t].pc = "auth_req" =>
                  (th'[t].op \in SubmitOps /\ Falsy(access_token) /\ th'[t].authCalls = 1)
             /\ th'[t].pc # "auth_req" => th'[t].authCalls = 0 ]_vars

\* The request that started init_poster is answered 500 after its
\* authenticate() returned False; poster is assigned.
C21_Witness ==
  \E t \in Threads :
    /\ th[t].pc = "responded" /\ th[t].stage = "init" /\ th[t].authRet = "False"
    /\ th[t].http = [NoHttp EXCEPT !.status = 500, !.error = "Failed to initialize poster"]
    /\ poster # None /\ Falsy(access_token)

====
